---------------------------- MODULE Spec2Model ----------------------------
(***************************************************************************)
(* Model of the setting-inference engine of jugg-pwa                       *)
(* (src/src/lib/inference.ts) and of the catalog lookup it starts with     *)
(* (src/unnamed/part_000, machinesById).                                   *)
(*                                                                         *)
(* JavaScript numbers are modelled as fixed-point integers: the integer v  *)
(* stands for the real v / S.  The finite numbers are -FMax..FMax; a       *)
(* finite result beyond that range overflows to an infinity, as a double   *)
(* does beyond Number.MAX_VALUE.  Four integers outside the finite range   *)
(* stand for +Infinity, -Infinity, NaN and for the two JavaScript          *)
(* non-numbers a bundle field can hold, undefined and null.  Signed zeros  *)
(* are not modelled (no code path of the engine tells -0 from 0).          *)
(***************************************************************************)
EXTENDS Integers, Sequences, FiniteSets, TLC

\* ------------------------------------------------------------------------
\* Number representation
\* ------------------------------------------------------------------------

\* Fixed-point scale: one unit is 1/S.
S == 2000

\* Largest finite magnitude, in units (the model's Number.MAX_VALUE).
FMax == 1000000

PInf == FMax + 1
NInf == 0 - (FMax + 1)
NaN == FMax + 2
Undef == FMax + 3
Null == FMax + 4

IsFin(x) == x >= 0 - FMax /\ x <= FMax
IsNum(x) == IsFin(x) \/ x = PInf \/ x = NInf

Abs(x) == IF x < 0 THEN 0 - x ELSE x
Sgn(x) == IF x < 0 THEN 0 - 1 ELSE IF x > 0 THEN 1 ELSE 0

\* n / d rounded to the nearest integer, for n >= 0 and d > 0.
RoundDiv(n, d) == (n + (d \div 2)) \div d

\* A finite result that left the finite range becomes an infinity.
Norm(v) == IF v > FMax THEN PInf ELSE IF v < 0 - FMax THEN NInf ELSE v

\* ToNumber: undefined -> NaN, null -> 0.
ToNumber(x) == IF x = Undef THEN NaN ELSE IF x = Null THEN 0 ELSE x

\* x ?? d
Coalesce(x, d) == IF x = Undef \/ x = Null THEN d ELSE x

Neg(a) == IF a = NaN THEN NaN ELSE 0 - a

Add(a, b) ==
  IF a = NaN \/ b = NaN THEN NaN
  ELSE IF a = PInf THEN (IF b = NInf THEN NaN ELSE PInf)
  ELSE IF a = NInf THEN (IF b = PInf THEN NaN ELSE NInf)
  ELSE IF b = PInf \/ b = NInf THEN b
  ELSE Norm(a + b)

Sub(a, b) == Add(a, Neg(b))

SignedInf(s) == IF s > 0 THEN PInf ELSE NInf

Mul(a, b) ==
  IF a = NaN \/ b = NaN THEN NaN
  ELSE IF a = 0 \/ b = 0 THEN (IF IsFin(a) /\ IsFin(b) THEN 0 ELSE NaN)
  ELSE IF ~IsFin(a) \/ ~IsFin(b) THEN SignedInf(Sgn(a) * Sgn(b))
  ELSE IF Abs(a) > (FMax * S) \div Abs(b) THEN SignedInf(Sgn(a) * Sgn(b))
  ELSE Sgn(a) * Sgn(b) * RoundDiv(Abs(a) * Abs(b), S)

Div(a, b) ==
  IF a = NaN \/ b = NaN THEN NaN
  ELSE IF ~IsFin(a) THEN (IF ~IsFin(b) THEN NaN
                          ELSE SignedInf(Sgn(a) * (IF b < 0 THEN 0 - 1 ELSE 1)))
  ELSE IF ~IsFin(b) THEN 0
  ELSE IF b = 0 THEN (IF a = 0 THEN NaN ELSE SignedInf(Sgn(a)))
  ELSE Norm(Sgn(a) * Sgn(b) * RoundDiv(Abs(a) * S, Abs(b)))

\* Comparisons: every comparison with NaN is false.
Gt(a, b) == a # NaN /\ b # NaN /\ a > b
Ge(a, b) == a # NaN /\ b # NaN /\ a >= b
Lt(a, b) == Gt(b, a)
Le(a, b) == Ge(b, a)

\* Math.max / Math.min of two numbers: NaN if either is NaN.
MathMax(a, b) == IF a = NaN \/ b = NaN THEN NaN ELSE IF a > b THEN a ELSE b
MathMin(a, b) == IF a = NaN \/ b = NaN THEN NaN ELSE IF a < b THEN a ELSE b

\* Math.trunc: the integer part, toward zero; NaN and the infinities pass.
MathTrunc(x) ==
  LET v == ToNumber(x)
  IN  IF ~IsFin(v) THEN v ELSE Sgn(v) * ((Abs(v) \div S) * S)

\* Number.isFinite: false for every non-number too.
NumberIsFinite(x) == IsFin(x)


\* ------------------------------------------------------------------------
\* Math.log, Math.exp, Math.sqrt on the fixed-point numbers
\* ------------------------------------------------------------------------

\* ln 2, in units.
Ln2 == RoundDiv(6931 * S, 10000)

\* ln x for S <= x < 2S: 2 atanh((x-1)/(x+1)), four terms of the series.
LnSeries(x) ==
  LET y  == RoundDiv((x - S) * S, x + S)
      y2 == RoundDiv(y * y, S)
      t3 == RoundDiv(y * y2, S)
      t5 == RoundDiv(t3 * y2, S)
      t7 == RoundDiv(t5 * y2, S)
  IN  RoundDiv(2 * (105 * y + 35 * t3 + 21 * t5 + 15 * t7), 105)

RECURSIVE LnU(_)
\* ln x for a finite x > 0: halve or double x into [1, 2), then the series.
LnU(x) ==
  IF x >= 2 * S THEN Ln2 + LnU(RoundDiv(x, 2))
  ELSE IF x < S THEN LnU(2 * x) - Ln2
  ELSE LnSeries(x)

MathLog(x) ==
  IF x = NaN \/ x < 0 THEN NaN
  ELSE IF x = 0 THEN NInf
  ELSE IF x = PInf THEN PInf
  ELSE LnU(x)

RECURSIVE Pow2(_)
Pow2(k) == IF k = 0 THEN 1 ELSE 2 * Pow2(k - 1)

\* exp(-r) for 0 <= r < ln 2: seven terms of the Taylor series.
ExpSeries(r) ==
  LET t2 == RoundDiv(r * r, 2 * S)
      t3 == RoundDiv(t2 * r, 3 * S)
      t4 == RoundDiv(t3 * r, 4 * S)
      t5 == RoundDiv(t4 * r, 5 * S)
      t6 == RoundDiv(t5 * r, 6 * S)
  IN  S - r + t2 - t3 + t4 - t5 + t6

\* exp(-t) for a finite t >= 0: exp(-t) = 2^-k exp(-r), t = k ln 2 + r.
\* Below one unit the result underflows to 0, as a double's does.
ExpNeg(t) ==
  LET k == t \div Ln2
      r == t % Ln2
  IN  IF k > 20 THEN 0 ELSE RoundDiv(ExpSeries(r), Pow2(k))

MathExp(x) ==
  IF x = NaN THEN NaN
  ELSE IF x = NInf THEN 0
  ELSE IF x = PInf THEN PInf
  ELSE IF x <= 0 THEN ExpNeg(0 - x)
  ELSE IF ExpNeg(x) = 0 THEN PInf
  ELSE Norm(RoundDiv(S * S, ExpNeg(x)))

RECURSIVE IsqrtR(_, _, _)
\* The largest r in lo..hi with r * r <= n.
IsqrtR(n, lo, hi) ==
  IF lo >= hi THEN lo
  ELSE LET mid == (lo + hi + 1) \div 2
       IN  IF mid * mid <= n THEN IsqrtR(n, mid, hi) ELSE IsqrtR(n, lo, mid - 1)

MathSqrt(x) ==
  IF x = NaN \/ x < 0 THEN NaN
  ELSE IF x = PInf THEN PInf
  ELSE IsqrtR(x * S, 0, 46340)

\* ------------------------------------------------------------------------
\* Constants of inference.ts, in units
\* ------------------------------------------------------------------------

One == S

\* 1e-12, the probability clamp: the smallest positive number of the model.
PEps == 1

\* 1e-9, the initial eMax of buildWeights.
EMaxFloor == 1

W_MAX == 3 * S
WMinGrape == (60 * S) \div 100
WMinOther == (5 * S) \div 100
TotalDamp == (40 * S) \div 100
FactorBase == (6 * S) \div 10
FactorSpan == One - FactorBase

\* Array(6).fill(1 / 6)
Sixth == Div(One, 6 * S)

BigCoins == (23925 * S) \div 100
RegCoins == (9525 * S) \div 100
GrapePay == 8 * S

\* The settings 1..6; setting s is index s - 1 of the code's arrays.
Settings == 1 .. 6

\* const metrics: MetricId[] of buildWeights, in its order.
metrics ==
  << "singleReg", "cherryReg", "singleBig", "cherryBig", "grape",
     "nonOverlapCherry", "midCherryBig", "totalBig", "totalReg" >>

MetricIds == { metrics[i] : i \in 1 .. Len(metrics) }

\* ------------------------------------------------------------------------
\* The pure functions of inference.ts
\* ------------------------------------------------------------------------

RECURSIVE SeqMax(_, _)
\* Math.max(...xs), starting from -Infinity.
SeqMax(xs, i) == IF i > Len(xs) THEN NInf ELSE MathMax(xs[i], SeqMax(xs, i + 1))

RECURSIVE SeqSum(_, _)
\* xs.reduce((a, b) => a + b, 0), from the left.
SeqSum(xs, n) == IF n = 0 THEN 0 ELSE Add(SeqSum(xs, n - 1), xs[n])

\* Mutant of Exps: the scores are exponentiated without the shift by m.
Exps_NoShift(logw, m) == [i \in 1 .. Len(logw) |-> MathExp(logw[i])]

\* w of softmaxLogWeights: logw.map((x) => Math.exp(x - m)).
Exps(logw, m) == [i \in 1 .. Len(logw) |-> MathExp(Sub(logw[i], m))]

\* The return of softmaxLogWeights, from w and its sum z.
Normalized(w, z) ==
  IF Le(z, 0) THEN [i \in Settings |-> Sixth]
  ELSE [i \in 1 .. Len(w) |-> Div(w[i], z)]

\* softmaxLogWeights from w on: z, the fallback test and the division.
NormalizedExps(w) == Normalized(w, SeqSum(w, Len(w)))

softmaxLogWeights(logw) == NormalizedExps(Exps(logw, SeqMax(logw, 1)))

safeProbFromDenom(denom) ==
  LET dn == ToNumber(denom)
      p  == Div(One, dn)
  IN  IF ~Gt(dn, 0) \/ ~NumberIsFinite(dn) THEN PEps
      ELSE IF ~NumberIsFinite(p) \/ Le(p, 0) THEN PEps
      ELSE MathMin(One - PEps, MathMax(PEps, p))

\* Mutant of clampCount: the count is not capped at n.
clampCount_NoCap(k, n) ==
  LET kk == MathTrunc(IF NumberIsFinite(k) THEN k ELSE 0)
  IN  IF Lt(kk, 0) THEN 0 ELSE kk

clampCount(k, n) ==
  LET kk == MathTrunc(IF NumberIsFinite(k) THEN k ELSE 0)
  IN  IF Lt(kk, 0) THEN 0
      ELSE IF Gt(kk, n) THEN n
      ELSE kk

\* The return of binomLogLik, from its constants nn, kk and pp.
LogLik(nn, kk, pp) ==
  Add(Mul(kk, MathLog(pp)), Mul(Sub(nn, kk), MathLog(Sub(One, pp))))

\* binomLogLik from nn on: kk and pp, then the return.
LogLikOf(nn, k, p) ==
  LogLik(nn, clampCount(k, nn), MathMin(One - PEps, MathMax(PEps, p)))

\* Mutant of binomLogLik: at least one trial is counted.
binomLogLik_AtLeastOneTrial(n, k, p) ==
  LogLikOf(MathMax(One, MathTrunc(IF NumberIsFinite(n) THEN n ELSE 0)), k, p)

binomLogLik(n, k, p) ==
  LogLikOf(MathMax(0, MathTrunc(IF NumberIsFinite(n) THEN n ELSE 0)), k, p)

\* denoms[i] of a JavaScript array (0-based): undefined beyond its length.
At(denoms, i) == IF i + 1 \in DOMAIN denoms THEN denoms[i + 1] ELSE Undef

deltaScore(denoms) ==
  LET d1 == ToNumber(At(denoms, 0))
      d6 == ToNumber(At(denoms, 5))
      r  == Div(d1, d6)
  IN  IF ~Gt(d1, 0) \/ ~Gt(d6, 0) THEN 0
      ELSE IF ~NumberIsFinite(r) \/ Le(r, 0) THEN 0
      ELSE MathLog(r)

avgProb(denoms) ==
  LET ps == [i \in 1 .. Len(denoms) |-> safeProbFromDenom(denoms[i])]
      m  == Div(SeqSum(ps, Len(denoms)), Len(denoms) * S)
  IN  MathMin(One - PEps, MathMax(PEps, m))

\* odds[m] of a MachineOdds: undefined for a metric the table leaves out.
HasMetric(odds, m) == m \in DOMAIN odds

\* The test of both loops of buildWeights: !den || den.length !== 6 skips.
Weighable(odds, m) == HasMetric(odds, m) /\ Len(odds[m]) = 6

\* eff of the first loop: e = Math.sqrt(G * p) for every metric it keeps.
Eff(odds, G) ==
  [m \in { x \in MetricIds : Weighable(odds, x) } |->
     MathSqrt(Mul(G, avgProb(odds[m])))]

\* Mutant of EMaxUpTo: eMax is the e of the first metric the loop keeps,
\* not the largest.
EMaxUpTo_First(eff, n) ==
  LET kept == { i \in 1 .. n : metrics[i] \in DOMAIN eff }
  IN  IF kept = {} THEN EMaxFloor
      ELSE eff[metrics[CHOOSE i \in kept : \A j \in kept : i <= j]]

RECURSIVE EMaxUpTo(_, _)
\* eMax after the first loop has visited metrics[1..n].
EMaxUpTo(eff, n) ==
  IF n = 0 THEN EMaxFloor
  ELSE LET prev == EMaxUpTo(eff, n - 1)
           m    == metrics[n]
       IN  IF m \in DOMAIN eff /\ Gt(eff[m], prev) THEN eff[m] ELSE prev

\* factor of the second loop.
Factor(e, eMax) == Add(FactorBase, Mul(FactorSpan, Div(e, eMax)))

wMin(m) == IF m = "grape" THEN WMinGrape ELSE WMinOther

isTotal(m) == m = "totalBig" \/ m = "totalReg"

\* if (isTotal) w *= 0.40
Damped(m, w) == IF isTotal(m) THEN Mul(w, TotalDamp) ELSE w

\* if (!Number.isFinite(w)) w = 0
FiniteOrZero(w) == IF ~NumberIsFinite(w) THEN 0 ELSE w

\* Mutant of Weight: the 0.40 of the cumulative metrics is applied after the
\* clamp.
Weight_DampAfterClamp(m, den, e, eMax) ==
  Damped(m, MathMax(wMin(m),
                    MathMin(W_MAX,
                            FiniteOrZero(Mul(deltaScore(den), Factor(e, eMax))))))

\* Mutant of Weight: the clamp keeps the floor but not the ceiling.
Weight_NoCeiling(m, den, e, eMax) ==
  MathMax(wMin(m),
          FiniteOrZero(Damped(m, Mul(deltaScore(den), Factor(e, eMax)))))

\* W[m] of the second loop, from the row den of m, its e and eMax.
Weight(m, den, e, eMax) ==
  MathMax(wMin(m),
          MathMin(W_MAX,
                  FiniteOrZero(Damped(m, Mul(deltaScore(den), Factor(e, eMax))))))

\* The second loop of buildWeights, from eff and eMax.
SecondLoop(odds, eff, eMax) ==
  [m \in DOMAIN eff |-> Weight(m, odds[m], eff[m], eMax)]

\* buildWeights after its first loop has filled eff.
WeightsFromEff(odds, eff) == SecondLoop(odds, eff, EMaxUpTo(eff, Len(metrics)))

buildWeights(odds, segGames) == WeightsFromEff(odds, Eff(odds, MathMax(0, segGames)))

\* weights.m of infer: undefined for a metric buildWeights skipped.
WeightOf(W, m) == IF m \in DOMAIN W THEN W[m] ELSE Undef

\* The fields of AdjustedStats.
StatFields ==
  { "segGames", "bigSingle", "bigCherry", "regSingle", "regCherry", "grapes",
    "nonOverlapCherries", "midCherryBig", "totalGames", "totalBig", "totalReg",
    "diff" }

\* Mutant of SegTerms: the grape line reads the count of the cherry line.
SegTerms_GrapeReadsCherries ==
  << <<"singleReg", "regSingle">>, <<"cherryReg", "regCherry">>,
     <<"singleBig", "bigSingle">>, <<"cherryBig", "bigCherry">>,
     <<"grape", "nonOverlapCherries">>,
     <<"nonOverlapCherry", "nonOverlapCherries">>,
     <<"midCherryBig", "midCherryBig">> >>

\* The per-segment metrics in the order infer adds their terms, each with
\* the bundle field that holds its count.
SegTerms ==
  << <<"singleReg", "regSingle">>, <<"cherryReg", "regCherry">>,
     <<"singleBig", "bigSingle">>, <<"cherryBig", "bigCherry">>,
     <<"grape", "grapes">>, <<"nonOverlapCherry", "nonOverlapCherries">>,
     <<"midCherryBig", "midCherryBig">> >>

\* The cumulative metrics, each with the bundle field that holds its count.
TotalTerms == << <<"totalBig", "totalBig">>, <<"totalReg", "totalReg">> >>

\* The fields infer reads through ?? 0.
OptionalCounts == { "midCherryBig", "totalGames", "totalBig", "totalReg" }

\* Mutant of Sanitized: a bundle without totalGames counts its segment games
\* as the cumulative games.
Sanitized_TotalFallsBack(stats) ==
  [f \in StatFields \ {"diff"} |->
     MathMax(0, MathTrunc(IF f = "totalGames"
                          THEN Coalesce(stats[f], stats.segGames)
                          ELSE IF f \in OptionalCounts
                          THEN Coalesce(stats[f], 0) ELSE stats[f]))]

\* segGames, totalGames and the k... constants of infer:
\* Math.max(0, Math.trunc(stats.f)), or of stats.f ?? 0 for an optional field.
Sanitized(stats) ==
  [f \in StatFields \ {"diff"} |->
     MathMax(0, MathTrunc(IF f \in OptionalCounts
                          THEN Coalesce(stats[f], 0) ELSE stats[f]))]

\* One weighted term of a setting's score (i is the 0-based setting index).
Term(odds, W, m, n, k, i) ==
  Mul(ToNumber(WeightOf(W, m)),
      binomLogLik(n, k, safeProbFromDenom(At(odds[m], i))))

RECURSIVE SegScore(_, _, _, _, _)
\* ll after the per-segment lines for SegTerms[1..j].
SegScore(odds, W, c, i, j) ==
  IF j = 0 THEN 0
  ELSE LET prev == SegScore(odds, W, c, i, j - 1)
           m    == SegTerms[j][1]
       IN  IF HasMetric(odds, m)
           THEN Add(prev, Term(odds, W, m, c.segGames, c[SegTerms[j][2]], i))
           ELSE prev

RECURSIVE TotalScore(_, _, _, _, _, _)
\* ll after the cumulative lines for TotalTerms[1..j], starting from ll0.
TotalScore(odds, W, c, i, j, ll0) ==
  IF j = 0 THEN ll0
  ELSE LET prev == TotalScore(odds, W, c, i, j - 1, ll0)
           m    == TotalTerms[j][1]
           k    == c[TotalTerms[j][2]]
       IN  IF HasMetric(odds, m) /\ Ge(k, 0)
           THEN Add(prev, Term(odds, W, m, c.totalGames, k, i))
           ELSE prev

\* ll after the block guarded by totalGames > 0, entered with ll = ll0.
WithTotals(odds, W, c, i, ll0) ==
  IF Gt(c.totalGames, 0)
  THEN TotalScore(odds, W, c, i, Len(TotalTerms), ll0)
  ELSE ll0

\* ll of setting index i, as pushed on logw.
Score(odds, W, c, i) ==
  WithTotals(odds, W, c, i, SegScore(odds, W, c, i, Len(SegTerms)))

RECURSIVE ExpectedUpTo(_, _)
\* post.reduce((acc, p, idx) => acc + (idx + 1) * p, 0)
ExpectedUpTo(post, n) ==
  IF n = 0 THEN 0
  ELSE Add(ExpectedUpTo(post, n - 1), Mul(n * S, post[n]))

\* Number(v.toFixed(3))
ToFixed3(v) == RoundDiv(RoundDiv(v * 1000, S) * S, 1000)

\* 3 * (1 / 7.3) + 2 * (1 / 35)
expectedSmallRoleCoinsPerGame ==
  Add(Mul(3 * S, Div(One, (73 * S) \div 10)), Mul(2 * S, Div(One, 35 * S)))

\* grapeCoins of grapeFromDiff.
GrapeCoins(G, BB, RB, D) ==
  Sub(Add(D, Mul(G, 3 * S)),
      Add(Add(Mul(BB, BigCoins), Mul(RB, RegCoins)),
          Mul(G, expectedSmallRoleCoinsPerGame)))

NoGrape == [grapeOddsFromDiff |-> Undef, grapeCoinsFromDiff |-> Undef]

\* Mutant of GrapeReturn: the coin figure is reported without the finiteness
\* test.
GrapeReturn_AnyCoins(grapeCoins, odds) ==
  IF ~NumberIsFinite(grapeCoins) \/ Le(grapeCoins, 0)
  THEN [grapeOddsFromDiff |-> Undef, grapeCoinsFromDiff |-> grapeCoins]
  ELSE IF ~NumberIsFinite(odds) \/ Le(odds, 0)
  THEN [grapeOddsFromDiff |-> Undef, grapeCoinsFromDiff |-> grapeCoins]
  ELSE [grapeOddsFromDiff |-> odds, grapeCoinsFromDiff |-> grapeCoins]

\* Mutant of GrapeReturn: a coin figure that is not positive is left out too.
GrapeReturn_OmitsCoins(grapeCoins, odds) ==
  IF ~NumberIsFinite(grapeCoins) \/ Le(grapeCoins, 0)
  THEN [grapeOddsFromDiff |-> Undef, grapeCoinsFromDiff |-> Undef]
  ELSE IF ~NumberIsFinite(odds) \/ Le(odds, 0)
  THEN [grapeOddsFromDiff |-> Undef, grapeCoinsFromDiff |-> grapeCoins]
  ELSE [grapeOddsFromDiff |-> odds, grapeCoinsFromDiff |-> grapeCoins]

\* The returns of grapeFromDiff after grapeCoins and odds are computed.
GrapeReturn(grapeCoins, odds) ==
  IF ~NumberIsFinite(grapeCoins) \/ Le(grapeCoins, 0)
  THEN [grapeOddsFromDiff |-> Undef,
        grapeCoinsFromDiff |->
          IF NumberIsFinite(grapeCoins) THEN grapeCoins ELSE Undef]
  ELSE IF ~NumberIsFinite(odds) \/ Le(odds, 0)
  THEN [grapeOddsFromDiff |-> Undef, grapeCoinsFromDiff |-> grapeCoins]
  ELSE [grapeOddsFromDiff |-> odds, grapeCoinsFromDiff |-> grapeCoins]

\* Mutant of GrapeEstimate: the ratio is taken the other way round.
GrapeEstimate_Inverted(games, grapeCoins) ==
  GrapeReturn(grapeCoins, Div(grapeCoins, Mul(GrapePay, games)))

\* grapeFromDiff from grapeCoins on: odds = (8 * G) / grapeCoins, the returns.
GrapeEstimate(games, grapeCoins) ==
  GrapeReturn(grapeCoins, Div(Mul(GrapePay, games), grapeCoins))

\* Mutant of grapeFromDiff: the absence test is a falsiness test, so that a
\* differential of 0 counts as absent.
grapeFromDiff_Falsy(games, big, reg, diff) ==
  IF diff = Undef \/ diff = Null \/ diff = 0 \/ diff = NaN THEN NoGrape
  ELSE IF ~Gt(games, 0) THEN NoGrape
  ELSE GrapeEstimate(games, GrapeCoins(games, big, reg, diff))

grapeFromDiff(games, big, reg, diff) ==
  IF diff = Undef \/ diff = Null THEN NoGrape
  ELSE IF ~Gt(games, 0) THEN NoGrape
  ELSE GrapeEstimate(games, GrapeCoins(games, big, reg, diff))

\* The outcome of a call that threw.
Thrown == [kind |-> "throw", error |-> "Unknown machine id"]

\* The loop of infer from the cumulative block on, given ll of every setting
\* after the per-segment lines.
LoopEnd(odds, c, weights, segll) ==
  [c       |-> c,
   weights |-> weights,
   segll   |-> segll,
   logw    |-> [i \in Settings |->
                  WithTotals(odds, weights, c, i - 1, segll[i])]]

\* The loop of infer, given the sanitized counts and the weights.
Loop(odds, c, weights) ==
  LoopEnd(odds, c, weights,
          [i \in Settings |-> SegScore(odds, weights, c, i - 1, Len(SegTerms))])

\* infer from buildWeights on, given the sanitized counts.
LocalsOf(odds, c) == Loop(odds, c, buildWeights(odds, c.segGames))

\* The constants infer computes before its return: the sanitized counts
\* (segGames, totalGames and the k... constants), weights and logw, and for
\* each setting the value ll has after the per-segment lines (segll).
inferLocals(odds, stats) == LocalsOf(odds, Sanitized(stats))

\* The object infer returns, from post, the estimator's pair and weights.
ResultObject(post, g, weights) ==
  [kind               |-> "ok",
   posterior          |-> post,
   expectedSetting    |-> ExpectedUpTo(post, Len(post)),
   p4plus             |-> Add(Add(post[4], post[5]), post[6]),
   p56                |-> Add(post[5], post[6]),
   weightsUsed        |-> [m \in DOMAIN weights |-> ToFixed3(weights[m])],
   grapeOddsFromDiff  |-> g.grapeOddsFromDiff,
   grapeCoinsFromDiff |-> g.grapeCoinsFromDiff]

\* Mutant of inferReturn: the estimator is handed the cumulative games on
\* top of the segment's.
inferReturn_TotalGamesInEstimator(L, stats) ==
  ResultObject(softmaxLogWeights(L.logw),
               grapeFromDiff(Add(L.c.segGames, L.c.totalGames),
                             Add(L.c.bigSingle, L.c.bigCherry),
                             Add(L.c.regSingle, L.c.regCherry), stats.diff),
               L.weights)

\* From softmaxLogWeights(logw) to the return statement.
inferReturn(L, stats) ==
  ResultObject(softmaxLogWeights(L.logw),
               grapeFromDiff(L.c.segGames, Add(L.c.bigSingle, L.c.bigCherry),
                             Add(L.c.regSingle, L.c.regCherry), stats.diff),
               L.weights)

\* The locals of a call that threw before computing any.
NoLocals == [c |-> << >>, weights |-> << >>, segll |-> << >>, logw |-> << >>]

\* A call that reached its return: the result object and the locals.
Completed(L, stats) == [outcome |-> inferReturn(L, stats), locals |-> L]

\* infer after the catalog lookup: its outcome and the locals it computed.
inferKnown(odds, stats) == Completed(inferLocals(odds, stats), stats)

\* Mutant of infer: an identifier the catalog lacks gets an empty table.
infer_NoLookupCheck(catalog, machine, stats) ==
  inferKnown(IF machine \in DOMAIN catalog THEN catalog[machine] ELSE << >>, stats)

\* infer, given the catalog it reads: the lookup, the throw, then the body.
infer(catalog, machine, stats) ==
  IF machine \notin DOMAIN catalog THEN [outcome |-> Thrown, locals |-> NoLocals]
  ELSE inferKnown(catalog[machine], stats)

\* ------------------------------------------------------------------------
\* The catalog
\* ------------------------------------------------------------------------

\* A denominator given in tenths (59 is 5.9), in units.
Tenths(x) == (x * S) \div 10

DenomRow(r) == [i \in 1 .. Len(r) |-> Tenths(r[i])]

\* MYJUG: the six segment metrics, no cumulative totals.  The rows follow
\* ODDS of model.ts, the bonus denominators divided by 10 so that their
\* probabilities are numbers of the model.
OddsMYJUG ==
  [ singleBig        |-> DenomRow(<<420, 415, 405, 377, 349, 341>>),
    singleReg        |-> DenomRow(<<655, 596, 496, 405, 390, 328>>),
    cherryBig        |-> DenomRow(<<1365, 1365, 1365, 1365, 1337, 1130>>),
    cherryReg        |-> DenomRow(<<1092, 1092, 1040, 1024, 862, 762>>),
    grape            |-> DenomRow(<<59, 59, 58, 58, 58, 57>>),
    nonOverlapCherry |-> DenomRow(<<381, 381, 368, 356, 356, 356>>) ]

\* IM: cumulative totals, the two single metrics and grape.
OddsIM ==
  [ totalBig  |-> DenomRow(<<273, 270, 270, 259, 259, 255>>),
    totalReg  |-> DenomRow(<<440, 400, 331, 315, 255, 255>>),
    singleBig |-> DenomRow(<<388, 381, 381, 370, 370, 362>>),
    singleReg |-> DenomRow(<<636, 570, 471, 446, 362, 362>>),
    grape     |-> DenomRow(<<60, 60, 60, 60, 60, 58>>) ]

\* FUNKY: a table with the rare metric and with rows that reach the guards
\* of the weight builder: a steep row (weight above W_MAX before the clamp),
\* a row whose denominators grow with the setting (negative score), and a
\* row with a zero and a NaN denominator.
OddsFUNKY ==
  [ totalBig     |-> DenomRow(<<220, 240, 256, 259, 266, 270>>),
    singleReg    |-> DenomRow(<<2000, 1000, 500, 200, 100, 40>>),
    grape        |-> << 0, Tenths(59), Tenths(59), NaN, Tenths(58), Tenths(58) >>,
    midCherryBig |-> DenomRow(<<1638, 1638, 1638, 1638, 1092, 1092>>) ]

\* machinesById as built at module load.
Catalog == [ MYJUG |-> OddsMYJUG, IM |-> OddsIM, FUNKY |-> OddsFUNKY ]

\* Device identifiers a caller may pass: the catalog's and one it lacks.
MachineIds == DOMAIN Catalog \cup { "GOGO" }

\* ------------------------------------------------------------------------
\* Observation bundles a caller may pass
\* ------------------------------------------------------------------------

\* A count so large that its log-likelihood leaves the finite range.
HugeCount == 400

\* A segment long enough for the reverse estimator to return a rate.
LongSegment == 50

\* The largest ordinary count of the bundles.
MaxCount == 3

\* What a caller may put in a game-count field.
GameValues ==
  { Undef, NaN, PInf, NInf, 0 - S, 0, S \div 2, MaxCount * S, LongSegment * S,
    HugeCount * S }

\* What a caller may put in a count field.
CountValues ==
  { Undef, NaN, PInf, 0 - S, 0, S, (MaxCount + 2) * S, HugeCount * S }

\* What a caller may put in the diff field.
DiffValues == { Undef, Null, NaN, 0, 20 * S, 0 - (20 * S), 0 - (200 * S) }

FieldValues(f) ==
  IF f \in {"segGames", "totalGames"} THEN GameValues
  ELSE IF f = "diff" THEN DiffValues
  ELSE CountValues

\* The bundle with every count 0 and no optional field.
ZeroBundle ==
  [f \in StatFields |->
     IF f \in {"midCherryBig", "totalGames", "totalBig", "totalReg", "diff"}
     THEN Undef ELSE 0]

\* An object with none of the fields.
EmptyBundle == [f \in StatFields |-> Undef]

\* A short session with cumulative totals and a differential.
ShortBundle ==
  [ZeroBundle EXCEPT !.segGames = MaxCount * S, !.grapes = S, !.bigSingle = S,
                     !.totalGames = (MaxCount + 1) * S, !.totalBig = S,
                     !.totalReg = S, !.diff = 0]

\* A longer session with a differential.
LongBundle ==
  [ZeroBundle EXCEPT !.segGames = LongSegment * S, !.grapes = 8 * S,
                     !.regSingle = S, !.diff = 20 * S]

BaseBundles == { ZeroBundle, EmptyBundle, ShortBundle, LongBundle }

\* The pairs of fields replaced together: a game count with a count it
\* bounds, or with the differential.
FieldPairs ==
  { <<"segGames", f>> : f \in {"grapes", "regSingle", "bigSingle", "midCherryBig", "diff"} }
    \cup { <<"totalGames", f>> : f \in {"totalBig", "totalReg"} }

\* The base bundles whose fields are also replaced in pairs.
PairBases == { ZeroBundle, ShortBundle }

\* Every base bundle with one field replaced, and the pair bases with a pair
\* replaced.
Bundles ==
  UNION { { [b EXCEPT ![f] = v] : v \in FieldValues(f) } :
          <<b, f>> \in BaseBundles \X StatFields }
    \cup
  UNION { { [b EXCEPT ![p[1]] = v1, ![p[2]] = v2] :
              v1 \in FieldValues(p[1]), v2 \in FieldValues(p[2]) } :
          <<b, p>> \in PairBases \X FieldPairs }

\* ------------------------------------------------------------------------
\* The application state: model.ts, storage.ts and the helpers of App.tsx
\* ------------------------------------------------------------------------

\* todayKey(): the date key of the day in use.
Today == "today"

\* A string field that is not there.
Absent == "undefined"

\* A play identifier that is not there; uid() never returns it.
NoId == 0

\* Play.inferCache that is not there (updatedAt, a time stamp, is left out).
NoCache ==
  [mapSetting |-> Undef, expectedSetting |-> Undef, p4plus |-> Undef, p56 |-> Undef]

\* The numeric fields of a Play that the screens read and write.
CountFields ==
  { "bigSingleCount", "bigCherryCount", "regSingleCount", "regCherryCount",
    "grapesCount", "cherriesCount" }

BaseFields == { "baseGamesTotal", "baseBigTotal", "baseRegTotal" }

\* Math.abs
MathAbs(x) == IF x = NaN THEN NaN ELSE IF x = NInf THEN PInf ELSE IF x = PInf THEN PInf ELSE Abs(x)

\* clampInt(x, min, max) of model.ts.
clampInt(x, min, max) ==
  MathMin(max, MathMax(min, MathTrunc(IF NumberIsFinite(x) THEN x ELSE 0)))

\* What a user may type into a number box.
TypedTexts == { "", "x", "-1", "2", "9" }

\* Number(t) of a typed text that is not blank.
NumberOfText(t) ==
  CASE t = "-1" -> 0 - S
    [] t = "2"  -> 2 * S
    [] t = "9"  -> 9 * S
    [] OTHER    -> NaN

\* parseSignedInt(s) of model.ts.
parseSignedInt(s) ==
  IF s = "" THEN 0
  ELSE IF ~NumberIsFinite(NumberOfText(s)) THEN 0
  ELSE MathTrunc(NumberOfText(s))

\* 9999999, the cap of a typed games total or count, in the number range of
\* the model.
InputCap == (MaxCount + 1) * S

\* The value a number box hands to its handler.
TypedCount(t) == clampInt(parseSignedInt(t), 0, InputCap)

\* uid("play"): an identifier no play of the list has.
RECURSIVE MaxId(_, _)
MaxId(plays, n) ==
  IF n = 0 THEN NoId
  ELSE IF plays[n].id > MaxId(plays, n - 1) THEN plays[n].id ELSE MaxId(plays, n - 1)

uid(plays) == MaxId(plays, Len(plays)) + 1

\* const newPlay: Play of the day view.
newPlay(id) ==
  [id                |-> id,
   machine           |-> "MYJUG",
   baseGamesTotal    |-> 0,
   baseBigTotal      |-> 0,
   baseRegTotal      |-> 0,
   currentGamesTotal |-> 0,
   bigSingleCount    |-> 0,
   bigCherryCount    |-> 0,
   regSingleCount    |-> 0,
   regCherryCount    |-> 0,
   grapesCount       |-> 0,
   cherriesCount     |-> 0,
   inferCache        |-> NoCache]

\* { version: 1, sessions: {} }
EmptyState == [version |-> 1, sessions |-> << >>]

\* The body of the play loop of normalizeState; id is what uid() returns.
NormalizedPlay(p, id) ==
  [f \in DOMAIN p |->
     IF f = "id" THEN (IF p.id = NoId THEN id ELSE p.id)
     ELSE IF f = "machine" THEN (IF p.machine = Absent THEN "MYJUG" ELSE p.machine)
     ELSE IF f = "currentGamesTotal"
       THEN Coalesce(p.currentGamesTotal, Coalesce(p.baseGamesTotal, 0))
     ELSE IF f \in BaseFields \cup CountFields THEN Coalesce(p[f], 0)
     ELSE p[f]]

NormalizedPlays(plays) ==
  [i \in DOMAIN plays |-> NormalizedPlay(plays[i], uid(plays) + i)]

normalizeState(st) ==
  [version  |-> 1,
   sessions |-> [k \in DOMAIN st.sessions |->
                   [plays |-> NormalizedPlays(st.sessions[k].plays)]]]

\* ensureSession(state, dateKey): the state object after the call, which
\* adds an empty session in place when the day has none.
ensureSession(st, dateKey) ==
  IF dateKey \in DOMAIN st.sessions THEN st
  ELSE [st EXCEPT !.sessions = @ @@ (dateKey :> [plays |-> << >>])]

\* The index of the play findPlay returns, 0 for null.
findPlay(plays, playId) ==
  IF \E i \in DOMAIN plays : plays[i].id = playId
  THEN CHOOSE i \in DOMAIN plays :
         /\ plays[i].id = playId
         /\ \A j \in DOMAIN plays : plays[j].id = playId => i <= j
  ELSE 0

\* bonusTotals(play)
bonusTotals(play) ==
  [bb |-> Add(Coalesce(play.bigSingleCount, 0), Coalesce(play.bigCherryCount, 0)),
   rb |-> Add(Coalesce(play.regSingleCount, 0), Coalesce(play.regCherryCount, 0))]

\* sessionStats(play).games
sessionGames(play) ==
  MathMax(0, Sub(Coalesce(play.currentGamesTotal, 0), Coalesce(play.baseGamesTotal, 0)))

\* statsForInfer of JudgeScreen (no differential and no rare-role count is
\* kept in the plays of the model).
statsForInfer(play) ==
  [segGames           |-> sessionGames(play),
   bigSingle          |-> Coalesce(play.bigSingleCount, 0),
   bigCherry          |-> Coalesce(play.bigCherryCount, 0),
   regSingle          |-> Coalesce(play.regSingleCount, 0),
   regCherry          |-> Coalesce(play.regCherryCount, 0),
   grapes             |-> Coalesce(play.grapesCount, 0),
   nonOverlapCherries |-> Coalesce(play.cherriesCount, 0),
   midCherryBig       |-> 0,
   totalGames         |-> Coalesce(play.currentGamesTotal, 0),
   totalBig           |-> Add(Coalesce(play.baseBigTotal, 0), bonusTotals(play).bb),
   totalReg           |-> Add(Coalesce(play.baseRegTotal, 0), bonusTotals(play).rb),
   diff               |-> Undef]

\* No inference: info is null.
NoInfo == [kind |-> "null"]

\* const info = st.games > 0 ? infer(play.machine, statsForInfer) : null
InfoOf(catalog, play) ==
  IF Gt(sessionGames(play), 0)
  THEN infer(catalog, play.machine, statsForInfer(play)).outcome
  ELSE NoInfo

\* Mutant of BestIdx: a later setting replaces the best one on a tie too.
RECURSIVE BestIdx_LastOfTies(_, _)
BestIdx_LastOfTies(posterior, n) ==
  IF n = 0 THEN 0
  ELSE LET best == BestIdx_LastOfTies(posterior, n - 1)
       IN  IF Ge(Coalesce(posterior[n + 1], 0), Coalesce(posterior[best + 1], 0))
           THEN n ELSE best

\* bestIdx of the effect after the loop has run for i = 1 .. n (0-based).
RECURSIVE BestIdx(_, _)
BestIdx(posterior, n) ==
  IF n = 0 THEN 0
  ELSE LET best == BestIdx(posterior, n - 1)
       IN  IF Gt(Coalesce(posterior[n + 1], 0), Coalesce(posterior[best + 1], 0))
           THEN n ELSE best

\* const cache of the effect.
CacheOf(info) ==
  [mapSetting      |-> (BestIdx(info.posterior, Len(info.posterior) - 1) + 1) * S,
   expectedSetting |-> info.expectedSetting,
   p4plus          |-> info.p4plus,
   p56             |-> info.p56]

\* 1e-6, the tolerance of the comparison with the stored cache: below one
\* unit of the model, so that only a difference of 0 is within it.
CacheEps == 1

\* Math.abs(a - b) < 1e-6
Within(a, b) == Lt(MathAbs(Sub(ToNumber(a), ToNumber(b))), CacheEps)

\* const same of the effect.
SameCache(prev, cache) ==
  /\ prev # NoCache
  /\ prev.mapSetting = cache.mapSetting
  /\ Within(prev.expectedSetting, cache.expectedSetting)
  /\ Within(prev.p4plus, cache.p4plus)
  /\ Within(prev.p56, cache.p56)

\* ---- storage.ts ----

\* A JSON value: null, a number, or an object with the keys of an AppState.
JNull == [t |-> "null"]
JNumber == [t |-> "number"]
JObject(version, hasSessions, sessions) ==
  [t |-> "object", version |-> version, hasSessions |-> hasSessions,
   sessions |-> sessions]

\* What localStorage.getItem(KEY) returns, and what a backup file holds: no
\* item, the empty string, a text that is not JSON, or the text of a value.
NoItem == [kind |-> "missing", value |-> JNull]
EmptyText == [kind |-> "empty", value |-> JNull]
Garbage == [kind |-> "garbage", value |-> JNull]
TextOf(v) == [kind |-> "json", value |-> v]

\* A number as JSON.stringify writes it and JSON.parse reads it back: NaN
\* and the infinities become null; an undefined value drops its key.
JsonNumber(x) == IF x = NaN \/ x = PInf \/ x = NInf THEN Null ELSE x

JsonPlay(p) ==
  [f \in DOMAIN p |->
     IF f = "inferCache" THEN [g \in DOMAIN p.inferCache |-> JsonNumber(p.inferCache[g])]
     ELSE IF f \in BaseFields \cup CountFields \cup {"currentGamesTotal"}
       THEN JsonNumber(p[f])
     ELSE p[f]]

JsonSessions(sessions) ==
  [k \in DOMAIN sessions |->
     [plays |-> [i \in DOMAIN sessions[k].plays |-> JsonPlay(sessions[k].plays[i])]]]

\* JSON.stringify(state)
JSONstringify(st) == TextOf(JObject(st.version, TRUE, JsonSessions(st.sessions)))

\* saveState(state): the item of KEY after localStorage.setItem.
saveState(st) == JSONstringify(st)

\* JSON.parse(text): the value, or a SyntaxError.
JSONparse(text) ==
  IF text.kind = "json" THEN [kind |-> "ok", value |-> text.value]
  ELSE [kind |-> "throw", value |-> JNull]

\* !obj || obj.version !== 1 || !obj.sessions
BadFormat(obj) == obj.t # "object" \/ obj.version # 1 \/ ~obj.hasSessions

\* The AppState a well-formed object is.
AsState(obj) == [version |-> obj.version, sessions |-> obj.sessions]

Returns(st) == [kind |-> "ok", state |-> st]
Throws == [kind |-> "throw", state |-> EmptyState]

\* Mutant of loadState: the version of the stored object is not looked at.
loadState_AnyVersion(item) ==
  IF item.kind \in {"missing", "empty"} THEN Returns(EmptyState)
  ELSE IF JSONparse(item).kind = "throw" THEN Returns(EmptyState)
  ELSE IF item.value.t # "object" \/ ~item.value.hasSessions THEN Returns(EmptyState)
  ELSE Returns(AsState(item.value))

\* loadState(): what it returns for the item of KEY.
loadState(item) ==
  IF item.kind \in {"missing", "empty"} THEN Returns(EmptyState)
  ELSE IF JSONparse(item).kind = "throw" THEN Returns(EmptyState)
  ELSE IF BadFormat(item.value) THEN Returns(EmptyState)
  ELSE Returns(AsState(item.value))

\* Mutant of importBackupFile: an object of any version is accepted.
importBackupFile_AnyVersion(file) ==
  IF JSONparse(file).kind = "throw" THEN Throws
  ELSE IF file.value.t # "object" \/ ~file.value.hasSessions THEN Throws
  ELSE Returns(AsState(file.value))

\* importBackupFile(file): the state the promise resolves to, or rejection.
importBackupFile(file) ==
  IF JSONparse(file).kind = "throw" THEN Throws
  ELSE IF BadFormat(file.value) THEN Throws
  ELSE Returns(AsState(file.value))

\* ---- The texts a storage item or a backup file may hold ----

\* A play as a hand-written or older backup may hold it: keys missing.
BarePlay ==
  [f \in DOMAIN newPlay(NoId) |->
     IF f = "id" THEN NoId
     ELSE IF f = "machine" THEN Absent
     ELSE IF f = "inferCache" THEN NoCache
     ELSE Undef]

\* A play in progress.
RunningPlay ==
  [newPlay(1) EXCEPT !.machine = "IM", !.baseGamesTotal = S,
                     !.currentGamesTotal = MaxCount * S, !.bigCherryCount = S,
                     !.regSingleCount = S, !.regCherryCount = S,
                     !.grapesCount = S]

\* A play whose current total is below its base total.
BehindPlay ==
  [newPlay(1) EXCEPT !.baseGamesTotal = 2 * S, !.currentGamesTotal = S]

\* A play with a base total and no current total.
BaseOnlyPlay ==
  [BarePlay EXCEPT !.id = 1, !.machine = "IM", !.baseGamesTotal = 2 * S]

\* A play with counts at the top of the number range.
HugePlay ==
  [newPlay(1) EXCEPT !.machine = "IM", !.currentGamesTotal = HugeCount * S,
                     !.grapesCount = HugeCount * S]

\* A play for a device the catalog lacks.
UnknownPlay ==
  [newPlay(1) EXCEPT !.machine = "GOGO", !.currentGamesTotal = MaxCount * S]

\* A play with a negative count.
NegativePlay ==
  [newPlay(1) EXCEPT !.machine = "IM", !.currentGamesTotal = MaxCount * S,
                     !.bigSingleCount = 0 - S]

StoredPlays ==
  { BarePlay, RunningPlay, BehindPlay, BaseOnlyPlay, HugePlay, UnknownPlay,
    NegativePlay }

OneDay(plays) == (Today :> [plays |-> plays])

\* The objects with version 1 and sessions.
GoodObjects ==
  { JObject(1, TRUE, << >>), JObject(1, TRUE, OneDay(<< >>)) }
    \cup { JObject(1, TRUE, OneDay(<< p >>)) : p \in StoredPlays }

\* The objects loadState and importBackupFile turn down.
BadObjects ==
  { JNull, JNumber,
    JObject(2, TRUE, OneDay(<< RunningPlay >>)),
    JObject(Undef, TRUE, OneDay(<< RunningPlay >>)),
    JObject(1, FALSE, << >>) }

Texts == { EmptyText, Garbage } \cup { TextOf(v) : v \in GoodObjects \cup BadObjects }

\* The backup files a user may pick.
BackupFiles ==
  { EmptyText, Garbage } \cup { TextOf(v) : v \in BadObjects }
    \cup { TextOf(JObject(1, TRUE, << >>)),
           TextOf(JObject(1, TRUE, OneDay(<< BarePlay >>))),
           TextOf(JObject(1, TRUE, OneDay(<< HugePlay >>))) }

\* The items localStorage may hold for KEY at start.
StoredItems == { NoItem } \cup Texts

\* ------------------------------------------------------------------------
\* The state machine: one call of infer
\* ------------------------------------------------------------------------

VARIABLES
  machinesById,  \* the catalog (module state of src/machines)
  machine,       \* the call's device identifier
  stats,         \* the call's observation bundle
  result,        \* the call's outcome: none yet, a result object, or a throw
  locals,        \* the local constants the call computed (c, weights, logw)
  calls,         \* the completed calls, oldest first: arguments and outcome
  state,         \* the AppState object React holds
  storage,       \* the item of KEY in localStorage
  view,          \* the view shown
  pc,            \* what runs next: a render, the judge effect, a handler
  info,          \* info of the last render of the judge view
  saves,         \* commits of the inference cache since the view was opened
  steps,         \* handlers run that write the state
  last           \* the last handler run and what it started from

engineVars == << machinesById, machine, stats, result, locals, calls >>

appVars == << state, storage, view, pc, info, saves, steps, last >>

vars == << engineVars, appVars >>

CalendarView == [kind |-> "calendar", playId |-> NoId]

\* The application not started: the engine is called on its own.
AppOff ==
  /\ state = EmptyState
  /\ storage = NoItem
  /\ view = CalendarView
  /\ pc = "off"
  /\ info = NoInfo
  /\ saves = 0
  /\ steps = 0
  /\ last = [op |-> "none", arg |-> "", ret |-> Returns(EmptyState),
             pre |-> EmptyState, old |-> EmptyState, preStore |-> NoItem,
             file |-> NoItem]

NoResult == [kind |-> "none"]

Init ==
  /\ machinesById = Catalog
  /\ machine \in MachineIds
  /\ stats \in Bundles
  /\ result = NoResult
  /\ locals = NoLocals
  /\ calls = << >>
  /\ AppOff

\* A completed call: the arguments passed and the outcome received.
Call(m, b, o) == [machine |-> m, stats |-> b, outcome |-> o]

\* Mutant of Infer: the engine keeps the bundle of a call and the next call
\* computes from the kept bundle instead of its own.
Infer_StaleBundle ==
  /\ result = NoResult
  /\ \E r \in { infer(machinesById, machine,
                        IF calls # << >> THEN calls[Len(calls)].stats ELSE stats) } :
       /\ result' = r.outcome
       /\ locals' = r.locals
       /\ calls' = Append(calls, Call(machine, stats, r.outcome))
  /\ UNCHANGED << machinesById, machine, stats, appVars >>

\* The caller invokes infer(machine, stats) and receives its outcome.
Infer ==
  /\ result = NoResult
  /\ \E r \in { infer(machinesById, machine, stats) } :
       /\ result' = r.outcome
       /\ locals' = r.locals
       /\ calls' = Append(calls, Call(machine, stats, r.outcome))
  /\ UNCHANGED << machinesById, machine, stats, appVars >>

Next == Infer

Spec == Init /\ [][Next]_vars

\* A caller that calls infer again and again (the screen recomputes the
\* inference whenever the day's counts change).
MaxCalls == 3

\* The bundles of the repeated calls.
CallBundles == { ShortBundle, LongBundle }

InitCalls ==
  /\ machinesById = Catalog
  /\ machine \in MachineIds
  /\ stats \in CallBundles
  /\ result = NoResult
  /\ locals = NoLocals
  /\ calls = << >>
  /\ AppOff

\* The caller takes the outcome and prepares its next call.
NextCall ==
  /\ result # NoResult
  /\ Len(calls) < MaxCalls
  /\ machine' \in MachineIds
  /\ stats' \in CallBundles
  /\ result' = NoResult
  /\ locals' = NoLocals
  /\ UNCHANGED << machinesById, calls, appVars >>

NextCalls == Infer \/ NextCall

SpecCalls == InitCalls /\ [][NextCalls]_vars

\* A catalog whose IM table has a row of five denominators, as a machine
\* file may hold: the rows are data read at module load and nothing checks
\* their length.
ShortRowCatalog ==
  [Catalog EXCEPT !["IM"] =
     [@ EXCEPT !["singleReg"] = SubSeq(@, 1, 5)]]

\* The catalogs infer is run against.
Catalogs == { Catalog, ShortRowCatalog }

\* Every base bundle with one field replaced.
SingleFieldBundles ==
  UNION { { [b EXCEPT ![f] = v] : v \in FieldValues(f) } :
          <<b, f>> \in BaseBundles \X StatFields }

InitTables ==
  /\ machinesById \in Catalogs
  /\ machine \in MachineIds
  /\ stats \in SingleFieldBundles
  /\ result = NoResult
  /\ locals = NoLocals
  /\ calls = << >>
  /\ AppOff

NextTables == Infer

SpecTables == InitTables /\ [][NextTables]_vars

\* ------------------------------------------------------------------------
\* The state machine of the application: App.tsx
\* ------------------------------------------------------------------------

\* The most handlers that write the state in one run.
MaxSteps == 1

\* The most plays of the day.
MaxPlays == 1

\* The most commits of the inference cache followed after a view is opened.
MaxSaves == 2

\* The play the view shows: the index findPlay returns in the day's list.
PlayIdx == findPlay(ensureSession(state, Today).sessions[Today].plays, view.playId)

\* The play of that index.
ViewPlay == state.sessions[Today].plays[PlayIdx]

ShowsPlay(kind) == view.kind = kind /\ pc = "idle" /\ PlayIdx # 0

\* The state with the play of index idx replaced by p.
WithPlay(st, idx, p) == [st EXCEPT !.sessions[Today].plays[idx] = p]

\* What a handler leaves behind for the properties: its name and argument,
\* what it returned, the state object and the stored item before it, and the
\* file it was given.
Last(op, arg, ret) ==
  [op |-> op, arg |-> arg, ret |-> ret, pre |-> state, old |-> state,
   preStore |-> storage, file |-> NoItem]

InitApp ==
  /\ machinesById = Catalog
  /\ machine = "IM"
  /\ stats = ZeroBundle
  /\ result = NoResult
  /\ locals = NoLocals
  /\ calls = << >>
  /\ storage \in StoredItems
  /\ state = normalizeState(loadState(storage).state)
  /\ view = CalendarView
  /\ pc = "render"
  /\ info = NoInfo
  /\ saves = 0
  /\ steps = 0
  /\ last = [op |-> "load", arg |-> "", ret |-> loadState(storage),
             pre |-> EmptyState, old |-> EmptyState, preStore |-> storage,
             file |-> NoItem]

\* Where a render leaves the component: unmounted by a throw, with the
\* effect of the judge view to run, or waiting for the user.
AfterRender(i) ==
  IF i.kind = "throw" THEN "crashed" ELSE IF i.kind = "ok" THEN "effect" ELSE "idle"

\* info of the render of state st: computed by the judge view for its play.
RenderInfo(st) ==
  IF view.kind = "judge" /\ findPlay(st.sessions[Today].plays, view.playId) # 0
  THEN InfoOf(machinesById,
              st.sessions[Today].plays[findPlay(st.sessions[Today].plays, view.playId)])
  ELSE NoInfo

\* A render of App: the session memo calls ensureSession on the state
\* object, the judge view computes info.
Render ==
  /\ pc = "render"
  /\ state' = ensureSession(state, Today)
  /\ \E i \in { RenderInfo(ensureSession(state, Today)) } :
       /\ info' = i
       /\ pc' = AfterRender(i)
  /\ last' = Last("render", "", Returns(EmptyState))
  /\ UNCHANGED << engineVars, storage, view, saves, steps >>

\* commit(mutator): next is the mutated structuredClone of the state.
Commit(next, op, arg) ==
  /\ state' = next
  /\ storage' = saveState(next)
  /\ pc' = "render"
  /\ last' = Last(op, arg, Returns(EmptyState))

\* The effect of the judge view with the cache it computed.
EffectWith(cache) ==
  IF SameCache(ViewPlay.inferCache, cache)
  THEN /\ pc' = "idle"
       /\ last' = Last("effect", "", Returns(EmptyState))
       /\ UNCHANGED << state, storage, saves >>
  ELSE /\ saves < MaxSaves
       /\ Commit(WithPlay(state, PlayIdx, [ViewPlay EXCEPT !.inferCache = cache]),
                 "onSaveInference", "")
       /\ saves' = saves + 1

\* useEffect(..., [info]) of JudgeScreen, run after a render with an info.
Effect ==
  /\ pc = "effect"
  /\ EffectWith(CacheOf(info))
  /\ UNCHANGED << engineVars, view, info, steps >>

ViewOf(kind, playId) == [kind |-> kind, playId |-> playId]

\* The views the buttons of the current view lead to.
Targets ==
  IF view.kind = "calendar" THEN { ViewOf("day", NoId) }
  ELSE IF view.kind = "day"
    THEN { CalendarView }
           \cup { ViewOf("play", state.sessions[Today].plays[i].id) :
                    i \in DOMAIN state.sessions[Today].plays }
  ELSE IF view.kind = "play"
    THEN { ViewOf("day", NoId), ViewOf("counter", view.playId),
           ViewOf("judge", view.playId) }
  ELSE IF view.kind = "counter"
    THEN { ViewOf("day", NoId), ViewOf("judge", view.playId) }
  ELSE IF view.kind = "judge"
    THEN { ViewOf("counter", view.playId), ViewOf("play", view.playId) }
  ELSE {}

\* setView by a navigation button.
Navigate ==
  /\ pc = "idle"
  /\ \E v \in Targets : view' = v
  /\ pc' = "render"
  /\ saves' = 0
  /\ last' = Last("setView", "", Returns(EmptyState))
  /\ UNCHANGED << engineVars, state, storage, info, steps >>

Writes == pc = "idle" /\ steps < MaxSteps

Wrote == steps' = steps + 1 /\ UNCHANGED << engineVars, info, saves >>

\* The "+" button of the day view.
AddPlay ==
  /\ Writes /\ view.kind = "day"
  /\ Len(state.sessions[Today].plays) < MaxPlays
  /\ \E id \in { uid(state.sessions[Today].plays) } :
       /\ Commit([state EXCEPT !.sessions[Today].plays = Append(@, newPlay(id))],
                 "addPlay", "")
       /\ view' = ViewOf("play", id)
  /\ Wrote

\* The machine select of the play view.
SetMachine ==
  /\ Writes /\ ShowsPlay("play")
  /\ \E v \in MachineIds :
       Commit(WithPlay(state, PlayIdx, [ViewPlay EXCEPT !.machine = v]),
              "setMachine", v)
  /\ Wrote /\ UNCHANGED view

\* Mutant of BaseEdited: the current total is left where it was.
BaseEdited_NoRaise(p, v) == [p EXCEPT !.baseGamesTotal = v]

\* The mutator of the base games total input of the play view.
BaseEdited(p, v) ==
  [p EXCEPT !.baseGamesTotal = v,
            !.currentGamesTotal = IF Lt(Coalesce(@, 0), v) THEN v ELSE @]

SetBaseGames ==
  /\ Writes /\ ShowsPlay("play")
  /\ \E t \in TypedTexts :
       Commit(WithPlay(state, PlayIdx, BaseEdited(ViewPlay, TypedCount(t))),
              "setBaseGames", "")
  /\ Wrote /\ UNCHANGED view

\* onSetGamesTotal of the counter view.
onSetGamesTotal ==
  /\ Writes /\ ShowsPlay("counter")
  /\ \E t \in TypedTexts :
       Commit(WithPlay(state, PlayIdx,
                       [ViewPlay EXCEPT !.currentGamesTotal = TypedCount(t)]),
              "onSetGamesTotal", "")
  /\ Wrote /\ UNCHANGED view

\* The mutator of onBump for a d with the one key of field f: a falsy delta
\* leaves the field, any other is added with a floor of 0.
Bumped(p, f, delta) ==
  IF delta = 0 \/ delta = NaN \/ delta = Undef THEN p
  ELSE [p EXCEPT ![f] = MathMax(0, Add(Coalesce(@, 0), delta))]

\* onBump(d) of the counter view.
onBump(f, delta, op, arg) ==
  Commit(WithPlay(state, PlayIdx, Bumped(ViewPlay, f, delta)), op, arg)

\* The grape and cherry buttons.
SmallRoleFields == { "grapesCount", "cherriesCount" }

ButtonPlus ==
  /\ Writes /\ ShowsPlay("counter")
  /\ \E f \in SmallRoleFields : onBump(f, S, "plus", f)
  /\ Wrote /\ UNCHANGED view

\* The number boxes of grape and cherry: onBump({ grape: v - grapes }).
ManualEntry ==
  /\ Writes /\ ShowsPlay("counter")
  /\ \E f \in SmallRoleFields, t \in TypedTexts :
       onBump(f, Sub(TypedCount(t), Coalesce(ViewPlay[f], 0)), "manual", f)
  /\ Wrote /\ UNCHANGED view

\* The bonus the modal was opened for.
Picks == { "bb", "rb" }

SingleField(pick) == IF pick = "bb" THEN "bigSingleCount" ELSE "regSingleCount"
CherryField(pick) == IF pick = "bb" THEN "bigCherryCount" ELSE "regCherryCount"

\* The two adding buttons of the modal.
ModalPlus ==
  /\ Writes /\ ShowsPlay("counter")
  /\ \E pick \in Picks :
       \E f \in { SingleField(pick), CherryField(pick) } :
         onBump(f, S, "modalPlus", f)
  /\ Wrote /\ UNCHANGED view

\* Mutant of MinusField: the cherry count is tried first.
MinusField_CherryFirst(p, pick) ==
  IF Gt(Coalesce(p[CherryField(pick)], 0), 0) THEN CherryField(pick)
  ELSE IF Gt(Coalesce(p[SingleField(pick)], 0), 0) THEN SingleField(pick)
  ELSE Absent

\* The field the -1 button of the modal decrements, if any.
MinusField(p, pick) ==
  IF Gt(Coalesce(p[SingleField(pick)], 0), 0) THEN SingleField(pick)
  ELSE IF Gt(Coalesce(p[CherryField(pick)], 0), 0) THEN CherryField(pick)
  ELSE Absent

\* The -1 button of the modal.
ModalMinus ==
  /\ Writes /\ ShowsPlay("counter")
  /\ \E pick \in Picks :
       IF MinusField(ViewPlay, pick) = Absent
       THEN /\ last' = Last("modalMinus", pick, Returns(EmptyState))
            /\ UNCHANGED << state, storage, pc >>
       ELSE onBump(MinusField(ViewPlay, pick), 0 - S, "modalMinus", pick)
  /\ Wrote /\ UNCHANGED view

\* The import input of the calendar view, once the file is read.
Import ==
  /\ Writes /\ view.kind = "calendar"
  /\ \E file \in BackupFiles :
       \E r \in { importBackupFile(file) } :
         IF r.kind = "throw"
         THEN /\ last' = [Last("import", "", r) EXCEPT !.file = file]
              /\ UNCHANGED << state, storage, pc >>
         ELSE /\ state' = normalizeState(r.state)
              /\ storage' = saveState(normalizeState(r.state))
              /\ pc' = "render"
              /\ last' = [Last("import", "", r) EXCEPT !.file = file]
  /\ Wrote /\ UNCHANGED view

NextApp ==
  \/ Render
  \/ Effect
  \/ Navigate
  \/ AddPlay
  \/ SetMachine
  \/ SetBaseGames
  \/ onSetGamesTotal
  \/ ButtonPlus
  \/ ManualEntry
  \/ ModalPlus
  \/ ModalMinus
  \/ Import

SpecApp == InitApp /\ [][NextApp]_vars

\* ------------------------------------------------------------------------
\* Properties
\* ------------------------------------------------------------------------

Returned == result # NoResult
Known == machine \in DOMAIN machinesById
ReturnedOk == Returned /\ result.kind = "ok"

\* The fields of a result object.
ResultFields ==
  { "posterior", "expectedSetting", "p4plus", "p56", "weightsUsed",
    "grapeOddsFromDiff", "grapeCoinsFromDiff" }

\* C1: infer called with a device identifier that has no catalog entry throws
\* the unknown-machine error and returns no result object, none of its
\* fields, whatever the bundle is.
C1_UnknownMachineThrows ==
  (Returned /\ ~Known) =>
    /\ result.kind = "throw"
    /\ result.error = "Unknown machine id"
    /\ DOMAIN result \cap ResultFields = {}

\* C1 witness: a call for the identifier the catalog lacks, with a bundle
\* that carries counts, has thrown.
C1_Witness ==
  /\ Returned /\ ~Known
  /\ result.kind = "throw"
  /\ stats = ShortBundle

\* The table of the call's device.
CallOdds == machinesById[machine]

\* A negative, non-finite or missing value.
Unusable(v) == v = Undef \/ v = Null \/ ~IsFin(v) \/ v < 0

\* The bundle with every unusable count or game total replaced by 0.
ZeroedBundle(b) ==
  [f \in StatFields |-> IF f # "diff" /\ Unusable(b[f]) THEN 0 ELSE b[f]]

\* C2: for a known device infer never throws, whatever is negative, NaN,
\* infinite or missing in the bundle, and every such count or game total
\* enters the likelihood computation as 0: the six scores are those of the
\* bundle with these values replaced by 0.
C2_KnownNeverThrowsCountsAsZero ==
  (Returned /\ Known) =>
    /\ result.kind = "ok"
    /\ \A i \in Settings :
         locals.logw[i]
           = Score(CallOdds, locals.weights, Sanitized(ZeroedBundle(stats)), i - 1)

\* Rounding allowance for the sum of six rounded quotients, in units.
PostTol == 6

\* C3: for every known device and every bundle, each of the six posterior
\* entries is a number in [0, 1], none is NaN, and the six sum to 1 within
\* the tolerance.
C3_PosteriorIsDistribution ==
  ReturnedOk =>
    /\ \A i \in Settings :
         /\ result.posterior[i] # NaN
         /\ Ge(result.posterior[i], 0)
         /\ Le(result.posterior[i], One)
    /\ LET sum == SeqSum(result.posterior, 6)
       IN  Ge(sum, One - PostTol) /\ Le(sum, One + PostTol)

\* C4: expectedSetting is the sum over s in 1..6 of s times posterior[s] and
\* lies in [1, 6].
C4_ExpectedSettingInRange ==
  ReturnedOk =>
    /\ result.expectedSetting = ExpectedUpTo(result.posterior, 6)
    /\ Ge(result.expectedSetting, One)
    /\ Le(result.expectedSetting, 6 * One)

\* C5: p4plus is posterior[4] + posterior[5] + posterior[6], p56 is
\* posterior[5] + posterior[6], and p4plus >= p56.
C5_MassBuckets ==
  ReturnedOk =>
    /\ result.p4plus = Add(Add(result.posterior[4], result.posterior[5]),
                           result.posterior[6])
    /\ result.p56 = Add(result.posterior[5], result.posterior[6])
    /\ Ge(result.p4plus, result.p56)

\* C6: every weight buildWeights produces lies in [0.05, 3.0] and the weight
\* of the grape metric in [0.60, 3.0], for the segment game count infer
\* passes and for the bundle's own value (negative, NaN and infinite
\* included); the rounded values of weightsUsed stay in the same bounds.
C6_WeightBounds ==
  ReturnedOk =>
    LET direct == buildWeights(CallOdds, ToNumber(stats.segGames))
    IN  /\ DOMAIN result.weightsUsed = DOMAIN locals.weights
        /\ \A m \in DOMAIN locals.weights :
             /\ Ge(locals.weights[m], wMin(m))
             /\ Le(locals.weights[m], W_MAX)
             /\ Ge(result.weightsUsed[m], wMin(m))
             /\ Le(result.weightsUsed[m], W_MAX)
        /\ \A m \in DOMAIN direct :
             Ge(direct[m], wMin(m)) /\ Le(direct[m], W_MAX)

\* C6 witness: a call whose table has a row steep enough to reach the
\* ceiling and a grape row held at the grape floor.
C6_Witness ==
  /\ ReturnedOk
  /\ \E m \in DOMAIN locals.weights : locals.weights[m] = W_MAX
  /\ locals.weights["grape"] = WMinGrape
  /\ result.weightsUsed["grape"] = WMinGrape

WithoutTotals(b) == [b EXCEPT !.totalBig = Undef, !.totalReg = Undef]

\* C8: the totalBig and totalReg terms enter a setting's score only when the
\* bundle's totalGames is positive.  When totalGames is absent, zero or
\* negative the posterior is that of the bundle without its totalBig and
\* totalReg counts; a term that is included is the weight times the binomial
\* log-likelihood with totalGames as n and the cumulative tier count as k.
C8_TotalsOnlyWithTotalGames ==
  ReturnedOk =>
    /\ (stats.totalGames \in {Undef, Null} \/ Le(stats.totalGames, 0))
         => result.posterior
              = inferKnown(CallOdds, WithoutTotals(stats)).outcome.posterior
    /\ \A i \in Settings :
         LET W == locals.weights
             c == locals.c
             included(m) == Gt(c.totalGames, 0) /\ HasMetric(CallOdds, m)
                              /\ Ge(c[m], 0)
             plus(ll, m) ==
               IF included(m)
               THEN Add(ll, Mul(W[m],
                                binomLogLik(c.totalGames, c[m],
                                  safeProbFromDenom(CallOdds[m][i]))))
               ELSE ll
         IN  locals.logw[i] = plus(plus(locals.segll[i], "totalBig"), "totalReg")

\* C8 witness: a call for a device with both cumulative metrics whose bundle
\* carries cumulative tier counts but no positive totalGames.
C8_Witness ==
  /\ ReturnedOk
  /\ machine = "IM"
  /\ stats.totalGames \in {Undef, 0, 0 - S}
  /\ stats.totalBig = S
  /\ stats.totalReg = S
  /\ stats.segGames = MaxCount * S

\* The bundle fields that hold the counts of the metrics a table leaves out.
AbsentFields(odds) ==
  { SegTerms[j][2] : j \in { x \in DOMAIN SegTerms : ~HasMetric(odds, SegTerms[x][1]) } }
    \cup { TotalTerms[j][2] :
             j \in { x \in DOMAIN TotalTerms : ~HasMetric(odds, TotalTerms[x][1]) } }

\* The bundle without the counts of the metrics the table leaves out.
WithoutAbsent(odds, b) ==
  [f \in StatFields |-> IF f \in AbsentFields(odds) THEN Undef ELSE b[f]]

\* C9: a metric the device's table does not define gets no weight and adds
\* no term: posterior, expectedSetting, p4plus, p56 and weightsUsed are those
\* of the bundle without the counts of these metrics.
C9_AbsentMetricSkipped ==
  ReturnedOk =>
    LET o == inferKnown(CallOdds, WithoutAbsent(CallOdds, stats)).outcome
    IN  /\ \A m \in MetricIds :
             ~HasMetric(CallOdds, m) => m \notin DOMAIN result.weightsUsed
        /\ result.posterior = o.posterior
        /\ result.expectedSetting = o.expectedSetting
        /\ result.p4plus = o.p4plus
        /\ result.p56 = o.p56
        /\ result.weightsUsed = o.weightsUsed

\* C9 witness: a call for a device without the cherry metrics whose bundle
\* carries a count for one of them.
C9_Witness ==
  /\ ReturnedOk
  /\ machine = "IM"
  /\ stats.segGames = MaxCount * S
  /\ "regCherry" \in AbsentFields(CallOdds)
  /\ stats.regCherry = S

\* C10: when the bundle's diff is null or undefined, or the segment game
\* count is not positive, the result carries neither grapeOddsFromDiff nor
\* grapeCoinsFromDiff; a diff of 0 with a positive game count is supplied:
\* the estimator runs and the result carries what its formula gives.
C10_GrapeFromDiffGate ==
  ReturnedOk =>
    /\ (stats.diff \in {Undef, Null} \/ ~Gt(ToNumber(stats.segGames), 0))
         => /\ result.grapeOddsFromDiff = Undef
            /\ result.grapeCoinsFromDiff = Undef
    /\ (stats.diff = 0 /\ Gt(locals.c.segGames, 0))
         => LET c     == locals.c
                coins == GrapeCoins(c.segGames, Add(c.bigSingle, c.bigCherry),
                                    Add(c.regSingle, c.regCherry), 0)
                odds  == Div(Mul(GrapePay, c.segGames), coins)
            IN  /\ result.grapeCoinsFromDiff
                     = IF NumberIsFinite(coins) THEN coins ELSE Undef
                /\ result.grapeOddsFromDiff
                     = IF NumberIsFinite(coins) /\ Gt(coins, 0)
                          /\ NumberIsFinite(odds) /\ Gt(odds, 0)
                       THEN odds ELSE Undef

\* C10 witness: a call with diff 0 and a positive game count returned both
\* estimator fields.
C10_Witness ==
  /\ ReturnedOk
  /\ stats.diff = 0
  /\ Gt(locals.c.segGames, 0)
  /\ result.grapeCoinsFromDiff # Undef
  /\ result.grapeOddsFromDiff # Undef

\* The arguments infer hands to grapeFromDiff: games, big and reg.
CallGames == locals.c.segGames
CallBig == Add(locals.c.bigSingle, locals.c.bigCherry)
CallReg == Add(locals.c.regSingle, locals.c.regCherry)

\* targetSymbolCoins of the call: grapeCoins for the bundle's diff.
CallCoins == GrapeCoins(CallGames, CallBig, CallReg, stats.diff)

\* The estimator ran: diff is supplied and the game count is positive.
EstimatorRan ==
  ReturnedOk /\ stats.diff \notin {Undef, Null} /\ Gt(CallGames, 0)

\* C11: when diff is supplied, G > 0 and targetSymbolCoins is finite and
\* not positive, the result holds grapeCoinsFromDiff equal to that value
\* and no grapeOddsFromDiff.
C11_NonPositiveCoinsReported ==
  (EstimatorRan /\ NumberIsFinite(CallCoins) /\ Le(CallCoins, 0)) =>
    /\ result.grapeCoinsFromDiff = CallCoins
    /\ result.grapeOddsFromDiff = Undef

\* C11 witness: a call whose bonus payouts exceed what the differential and
\* the games account for returned a negative coin figure and no rate.
C11_Witness ==
  /\ EstimatorRan
  /\ NumberIsFinite(CallCoins)
  /\ CallCoins < 0
  /\ result.grapeCoinsFromDiff = CallCoins
  /\ Gt(CallBig, 0)

\* The target rates of the round trip, in units (5.5 to 8.0).
TargetRates == { (r * S) \div 2 : r \in 11 .. 16 }

\* Allowance for the rounding of 8G/r and of 8G/targetSymbolCoins, in units.
RateTol == 2

\* The differential for which targetSymbolCoins is coins.
DiffFor(G, BB, RB, coins) == Sub(coins, GrapeCoins(G, BB, RB, 0))

\* The diff that makes targetSymbolCoins = 8G / r for the call's G, BB, RB.
RoundTripDiff(r) ==
  DiffFor(CallGames, CallBig, CallReg, Div(Mul(GrapePay, CallGames), r))

\* The round trip for r stays within the finite numbers: the diff and the
\* coin figure computed back from it are finite.
RoundTripInRange(r) ==
  /\ NumberIsFinite(RoundTripDiff(r))
  /\ NumberIsFinite(GrapeCoins(CallGames, CallBig, CallReg, RoundTripDiff(r)))

\* C12: when diff is supplied, G > 0 and targetSymbolCoins is positive,
\* grapeCoinsFromDiff is targetSymbolCoins and grapeOddsFromDiff is
\* 8G / targetSymbolCoins, with BB and RB the segment's sums; and for the
\* call's G, BB and RB, the diff chosen so that targetSymbolCoins = 8G / r
\* makes the estimator return r, within the rounding allowance.
C12_PositiveCoinsGiveRate ==
  /\ (EstimatorRan /\ NumberIsFinite(CallCoins) /\ Gt(CallCoins, 0)) =>
       /\ result.grapeCoinsFromDiff = CallCoins
       /\ result.grapeOddsFromDiff = Div(Mul(GrapePay, CallGames), CallCoins)
  /\ (ReturnedOk /\ Gt(CallGames, 0)) =>
       \A r \in TargetRates :
         LET back == grapeFromDiff(CallGames, CallBig, CallReg,
                                   RoundTripDiff(r)).grapeOddsFromDiff
         IN  RoundTripInRange(r) =>
               /\ NumberIsFinite(back)
               /\ back >= r - RateTol
               /\ back <= r + RateTol

\* C12 witness: a call with a positive coin figure returned both fields,
\* from a bundle with a bonus in the segment.
C12_Witness ==
  /\ EstimatorRan
  /\ NumberIsFinite(CallCoins)
  /\ CallCoins > 0
  /\ result.grapeOddsFromDiff = Div(Mul(GrapePay, CallGames), CallCoins)
  /\ result.grapeOddsFromDiff # Undef
  /\ Gt(CallReg, 0)
  /\ \A r \in TargetRates : RoundTripInRange(r)

\* A device table without any metric: no weight, no term.
NoMetrics == << >>

\* The bundle fields the estimator is not handed.
PipelineOnlyFields ==
  { "grapes", "nonOverlapCherries", "midCherryBig", "totalGames", "totalBig",
    "totalReg" }

\* The bundle without the fields the estimator is not handed.
WithoutPipelineOnly(b) ==
  [f \in StatFields |-> IF f \in PipelineOnlyFields THEN Undef ELSE b[f]]

\* C13: the estimator's outputs depend neither on the catalog nor on the
\* weighted pipeline: whatever the known device and whatever the bundle's
\* grapes, nonOverlapCherries, midCherryBig, totalGames, totalBig and
\* totalReg, grapeOddsFromDiff and grapeCoinsFromDiff are those of the call
\* for a table without metrics and the bundle without these six fields.
C13_EstimatorIndependent ==
  ReturnedOk =>
    LET o == inferKnown(NoMetrics, WithoutPipelineOnly(stats)).outcome
    IN  /\ result.grapeOddsFromDiff = o.grapeOddsFromDiff
        /\ result.grapeCoinsFromDiff = o.grapeCoinsFromDiff

\* C13 witness: a call for a device with cumulative metrics, with grapes and
\* cumulative games in the bundle, returned both estimator fields.
C13_Witness ==
  /\ EstimatorRan
  /\ machine = "IM"
  /\ result.grapeOddsFromDiff # Undef
  /\ result.grapeCoinsFromDiff # Undef
  /\ NumberIsFinite(stats.totalGames) /\ stats.totalGames > 0
  /\ NumberIsFinite(stats.grapes) /\ stats.grapes > 0

\* C14: in every result grapeOddsFromDiff and grapeCoinsFromDiff are each
\* absent or a finite number, never NaN or infinite; grapeOddsFromDiff, when
\* present, is strictly positive and comes with grapeCoinsFromDiff.
C14_EstimatorFieldsFinite ==
  ReturnedOk =>
    /\ result.grapeOddsFromDiff = Undef \/ NumberIsFinite(result.grapeOddsFromDiff)
    /\ result.grapeCoinsFromDiff = Undef \/ NumberIsFinite(result.grapeCoinsFromDiff)
    /\ result.grapeOddsFromDiff # Undef =>
         /\ Gt(result.grapeOddsFromDiff, 0)
         /\ result.grapeCoinsFromDiff # Undef

\* C14 witness: the estimator ran on a coin figure that is not a finite
\* number and the result holds neither field.
C14_Witness ==
  /\ EstimatorRan
  /\ ~NumberIsFinite(CallCoins)
  /\ result.grapeOddsFromDiff = Undef
  /\ result.grapeCoinsFromDiff = Undef

\* The all-zero bundle: segment game count 0, every count 0 (the optional
\* midCherryBig 0 or missing), no cumulative totals.
AllZero(b) ==
  /\ \A f \in { "segGames", "bigSingle", "bigCherry", "regSingle", "regCherry",
                "grapes", "nonOverlapCherries" } : b[f] = 0
  /\ b.midCherryBig \in {Undef, 0}
  /\ \A f \in { "totalGames", "totalBig", "totalReg" } : b[f] = Undef

\* Allowance for 21 times the rounding of 1/6, in units.
UniformTol == 11

\* C15: for every known device the all-zero bundle yields the uniform
\* posterior, 1/6 for each of the six settings, and expectedSetting 3.5
\* (within the rounding of 1/6).
C15_AllZeroIsUniform ==
  (ReturnedOk /\ AllZero(stats)) =>
    /\ \A i \in Settings : locals.logw[i] = 0
    /\ result.posterior = [i \in Settings |-> Div(One, 6 * S)]
    /\ result.expectedSetting >= (7 * S) \div 2 - UniformTol
    /\ result.expectedSetting <= (7 * S) \div 2 + UniformTol

\* C15 witness: the call for a known device with the all-zero bundle
\* returned the uniform posterior.
C15_Witness ==
  /\ ReturnedOk
  /\ stats = ZeroBundle
  /\ machine = "MYJUG"
  /\ \A i \in Settings : result.posterior[i] = Div(One, 6 * S)

\* A row whose denominators decrease with the setting: none rises, and the
\* last is below the first.
Decreasing(den) ==
  /\ Len(den) = 6
  /\ \A i \in 1 .. 6 : NumberIsFinite(den[i]) /\ den[i] > 0
  /\ \A i \in 1 .. 5 : den[i] >= den[i + 1]
  /\ den[1] > den[6]

\* C16: with the device, the segment game count and all other counts fixed,
\* a larger count of a segment metric whose denominators decrease with the
\* setting gives a strictly larger p56, for every pair of counts k < k' the
\* bundle may carry (stated for a segment of at least one game).
C16_MoreHitsMoreMassOnHighSettings ==
  (ReturnedOk /\ NumberIsFinite(stats.segGames) /\ stats.segGames >= S) =>
    \A j \in DOMAIN SegTerms :
      LET m == SegTerms[j][1]
          f == SegTerms[j][2]
      IN  (HasMetric(CallOdds, m) /\ Decreasing(CallOdds[m])
             /\ NumberIsFinite(stats[f])) =>
            \A k2 \in { k \in CountValues : NumberIsFinite(k) /\ k > stats[f] } :
              Gt(inferKnown(CallOdds, [stats EXCEPT ![f] = k2]).outcome.p56,
                 result.p56)

\* C17: softmaxLogWeights returns the uniform distribution whenever the sum
\* of the max-shifted exponentials is zero or not positive, also when all
\* six scores are minus infinity, and never returns a NaN entry.
C17_SoftmaxFallback ==
  ReturnedOk =>
    /\ (\A i \in Settings : locals.logw[i] = NInf)
         => result.posterior = [i \in Settings |-> Sixth]
    /\ \A i \in Settings : result.posterior[i] # NaN

\* G of buildWeights for the call.
CallG == MathMax(0, locals.c.segGames)

\* eff of buildWeights for the call, after its first loop.
CallEff == Eff(CallOdds, CallG)

\* The factors of the second loop, from eff and eMax.
Factors(eff, eMax) == [m \in DOMAIN eff |-> Factor(eff[m], eMax)]

\* The factors of the call.
CallFactors == Factors(CallEff, EMaxUpTo(CallEff, Len(metrics)))

\* The metrics with the largest e.
Largest(eff) == { m \in DOMAIN eff : \A x \in DOMAIN eff : Ge(eff[m], eff[x]) }

\* The original statement of C18: for every segment game count G >= 0 the
\* factor of every metric of the table lies in [0.6, 1.0] and a metric with
\* the largest e gets factor exactly 1.0.
C18_FactorRangeEveryG ==
  (ReturnedOk /\ NumberIsFinite(CallG) /\ Ge(CallG, 0)) =>
    LET eff    == CallEff
        factor == Factors(eff, EMaxUpTo(eff, Len(metrics)))
    IN  /\ \A m \in DOMAIN factor :
             Ge(factor[m], FactorBase) /\ Le(factor[m], One)
        /\ \A m \in Largest(eff) : factor[m] = One

\* C18 as amended: for every finite G >= 0 the factor of every metric of
\* the table lies in [0.6, 1.0]; for G of at least one game a metric with
\* the largest e gets factor exactly 1.0; for G = 0 every factor is 0.6.
C18_FactorRange ==
  (ReturnedOk /\ NumberIsFinite(CallG)) =>
    LET eff    == CallEff
        factor == Factors(eff, EMaxUpTo(eff, Len(metrics)))
    IN  /\ \A m \in DOMAIN factor :
             Ge(factor[m], FactorBase) /\ Le(factor[m], One)
        /\ CallG >= S => \A m \in Largest(eff) : factor[m] = One
        /\ CallG = 0 => \A m \in DOMAIN factor : factor[m] = FactorBase

\* C18 witness: a call with games in the segment where one metric has
\* factor 1.0 and another a smaller one.
C18_Witness ==
  /\ ReturnedOk
  /\ NumberIsFinite(CallG) /\ CallG >= S
  /\ LET factor == CallFactors
     IN  /\ \E m \in DOMAIN factor : factor[m] = One
         /\ \E m \in DOMAIN factor :
              Lt(factor[m], One) /\ Gt(factor[m], FactorBase)

\* The metrics with a per-segment line in the loop of infer.
SegMetrics == { SegTerms[j][1] : j \in DOMAIN SegTerms }

\* The term of metric m was added to the scores of the call: the table has
\* the metric and, for a cumulative metric, the guards of its line passed.
TermAdded(m) ==
  /\ HasMetric(CallOdds, m)
  /\ \/ m \in SegMetrics
     \/ /\ isTotal(m)
        /\ Gt(locals.c.totalGames, 0)
        /\ Ge(locals.c[m], 0)

\* C19: weightsUsed reports the weights actually used: a metric has an entry
\* exactly when its weighted term was added to the six scores of the call,
\* and the entry is the weight that multiplied the term, rounded to three
\* decimals.
C19_WeightsUsedAreUsed ==
  ReturnedOk =>
    \A m \in MetricIds :
      /\ m \in DOMAIN result.weightsUsed <=> TermAdded(m)
      /\ m \in DOMAIN result.weightsUsed
           => result.weightsUsed[m] = ToFixed3(locals.weights[m])

\* The bundle fields that hold the counts of the segment metrics.
SegFields == { SegTerms[j][2] : j \in DOMAIN SegTerms }

\* A finite count put into [0, n]: a negative one becomes 0, one above n
\* becomes n.
IntoRange(k, n) ==
  IF ~NumberIsFinite(k) THEN k
  ELSE IF k < 0 THEN 0
  ELSE IF NumberIsFinite(n) /\ k > n THEN n
  ELSE k

\* The bundle with every finite segment count put into [0, segGames].
ClampedBundle(b) ==
  [f \in StatFields |->
     IF f \in SegFields THEN IntoRange(b[f], b.segGames) ELSE b[f]]

\* C20: the likelihood kernel clamps the observed count into [0, n]: for a
\* known device the posterior is that of the bundle in which every count of
\* a segment metric above the segment game count is replaced by the segment
\* game count and every negative count by 0.
C20_CountsClamped ==
  ReturnedOk =>
    result.posterior = inferKnown(CallOdds, ClampedBundle(stats)).outcome.posterior

\* C20 witness: a call for a table with the metric whose bundle carries more
\* single REG hits than segment games.
C20_Witness ==
  /\ ReturnedOk
  /\ machine = "IM"
  /\ stats.segGames = MaxCount * S
  /\ stats.regSingle = (MaxCount + 2) * S
  /\ result.posterior # [i \in Settings |-> Sixth]

\* clamp(x, lo, hi) of a finite x.
Clamp(x, lo, hi) == IF x < lo THEN lo ELSE IF x > hi THEN hi ELSE x

\* d * factor of metric m in the call, before dampening and clamp.
BaseWeight(m, factor) == Mul(deltaScore(CallOdds[m]), factor[m])

\* C21: the weight of totalBig and of totalReg is
\* clamp(0.40 * d * factor, 0.05, 3.0), the 0.40 applied before floor and
\* ceiling, so that it is never below 0.05 nor above 3.0; the weight of every
\* other metric is clamp(d * factor, w_min, 3.0) with no dampening.
C21_TotalsDampedBeforeClamp ==
  ReturnedOk =>
    LET factor == CallFactors
    IN  \A m \in DOMAIN locals.weights :
          LET w    == locals.weights[m]
              base == BaseWeight(m, factor)
          IN  /\ isTotal(m) => Ge(w, WMinOther) /\ Le(w, W_MAX)
              /\ (NumberIsFinite(base) /\ isTotal(m))
                   => w = Clamp(Mul(TotalDamp, base), WMinOther, W_MAX)
              /\ (NumberIsFinite(base) /\ ~isTotal(m))
                   => w = Clamp(base, wMin(m), W_MAX)

\* C21 witness: a call in which one cumulative metric has a dampened weight
\* strictly between floor and ceiling, the other is held at the floor by the
\* dampening alone, and a metric that is not cumulative keeps d * factor.
C21_Witness ==
  /\ ReturnedOk
  /\ machine = "IM"
  /\ LET factor == CallFactors
     IN  /\ Gt(locals.weights["totalReg"], WMinOther)
         /\ locals.weights["totalReg"] = Mul(TotalDamp, BaseWeight("totalReg", factor))
         /\ Gt(BaseWeight("totalBig", factor), WMinOther)
         /\ locals.weights["totalBig"] = WMinOther
         /\ locals.weights["singleReg"] = BaseWeight("singleReg", factor)
         /\ Gt(locals.weights["singleReg"], WMinOther)

\* The six scores of the call are finite numbers.
FiniteScores == \A i \in Settings : NumberIsFinite(locals.logw[i])

\* The settings whose score is the largest of the call.
MaxScored == { i \in Settings : \A j \in Settings : Ge(locals.logw[i], locals.logw[j]) }

\* C29: for six finite scores the sum of exp(score - max score) is at least
\* 1, so softmaxLogWeights does not take the uniform fallback (the posterior
\* is the exponentials divided by their sum) and a setting with the maximal
\* score gets a posterior of at least 1/6.
C29_FiniteScoresSumAtLeastOne ==
  (ReturnedOk /\ FiniteScores) =>
    LET w == Exps(locals.logw, SeqMax(locals.logw, 1))
        z == SeqSum(w, Len(w))
    IN  /\ Ge(z, One)
        /\ result.posterior = [i \in Settings |-> Div(w[i], z)]
        /\ \A i \in MaxScored : Ge(result.posterior[i], Sixth)

\* C29 witness: a call with six finite scores that are not all equal, one of
\* them so far below the maximum that its exponential is 0.
C29_Witness ==
  /\ ReturnedOk
  /\ FiniteScores
  /\ MaxScored # Settings
  /\ \E i \in Settings : result.posterior[i] = 0
  /\ \E i \in MaxScored : Gt(result.posterior[i], Sixth)

\* C30: for any device table, every metric whose term infer adds to a
\* setting's score has a weight in the map buildWeights returned, also when
\* a row of the table does not have six entries.
C30_AddedTermsHaveWeights ==
  ReturnedOk =>
    \A m \in MetricIds : TermAdded(m) => m \in DOMAIN locals.weights

\* The handlers of the counter view that go through onBump.
BumpOps == { "plus", "manual", "modalPlus", "modalMinus" }

\* The play of the view in the state object st.
PlayIn(st) == st.sessions[Today].plays[findPlay(st.sessions[Today].plays, view.playId)]

\* The play p with one taken from the count of field f.
OneLess(p, f) == [p EXCEPT ![f] = Sub(@, S)]

\* What the -1 button of the modal opened for pick is to make of play p.
AfterMinus(p, pick) ==
  IF Gt(p[SingleField(pick)], 0) THEN OneLess(p, SingleField(pick))
  ELSE IF Gt(p[CherryField(pick)], 0) THEN OneLess(p, CherryField(pick))
  ELSE p

\* C22: a counter action applied through onBump (button +1, manual entry,
\* the modal's +1 and -1) leaves each of the six counts of the play >= 0
\* when none was below 0 before it, so that the counts stay >= 0 along any
\* sequence of such actions; the modal's -1 decrements the single count when
\* it is positive, otherwise the cherry-overlap count when it is positive,
\* otherwise changes nothing.
C22_CountsStayNonNegative ==
  last.op \in BumpOps =>
    /\ (\A f \in CountFields : Ge(PlayIn(last.pre)[f], 0))
         => \A f \in CountFields : Ge(PlayIn(state)[f], 0)
    /\ last.op = "modalMinus" => PlayIn(state) = AfterMinus(PlayIn(last.pre), last.arg)

\* C22 witness: the -1 of the REG modal was pressed on a play with single
\* and cherry-overlap REG counts both positive, and took one from the
\* single count only.
C22_Witness ==
  /\ last.op = "modalMinus"
  /\ last.arg = "rb"
  /\ Gt(PlayIn(last.pre).regSingleCount, 0)
  /\ Gt(PlayIn(last.pre).regCherryCount, 0)
  /\ PlayIn(state).regSingleCount = Sub(PlayIn(last.pre).regSingleCount, S)
  /\ PlayIn(state).regCherryCount = PlayIn(last.pre).regCherryCount

\* C23: while the judge view of a play stays open and the play's counts do
\* not change, the inference-cache effect commits inferCache at most once:
\* after the commit the recomputed inference matches the stored cache, so the
\* effect of the re-render commits nothing more.
C23_CacheCommittedAtMostOnce ==
  /\ saves <= 1
  /\ (pc = "effect" /\ saves >= 1) => SameCache(ViewPlay.inferCache, CacheOf(info))

\* The setting number the cache of the view's play holds.
StoredMap == ViewPlay.inferCache.mapSetting \div S

\* C24: the mapSetting the effect stores in inferCache is in 1..6 and is a
\* setting of maximal posterior probability of the inference it was taken
\* from: no setting has a larger one, and every lower-numbered setting has a
\* smaller one, so that of several settings tied for the maximum the lowest
\* is stored.
C24_MapSettingIsLowestArgmax ==
  last.op = "onSaveInference" =>
    /\ StoredMap \in Settings
    /\ ViewPlay.inferCache.mapSetting = StoredMap * S
    /\ \A j \in Settings : ~Gt(info.posterior[j], info.posterior[StoredMap])
    /\ \A j \in Settings :
         (j < StoredMap /\ info.posterior[StoredMap] # NaN)
           => Lt(info.posterior[j], info.posterior[StoredMap])

\* C24 witness: a cache was stored from a posterior in which a
\* higher-numbered setting ties with the stored one for the maximum.
C24_Witness ==
  /\ last.op = "onSaveInference"
  /\ info.posterior[StoredMap] # NaN
  /\ \E j \in Settings : j > StoredMap /\ info.posterior[j] = info.posterior[StoredMap]

\* The handlers that call commit.
CommitOps ==
  { "addPlay", "setMachine", "setBaseGames", "onSetGamesTotal", "plus", "manual",
    "modalPlus", "modalMinus", "onSaveInference" }

\* A commit has just run.
Committed == last.op \in CommitOps /\ pc = "render"

\* A backup has just been imported.
Imported == last.op = "import" /\ last.ret.kind = "ok"

\* C25: after every commit and after every successful backup import the
\* state written to local storage equals the in-memory app state (reading
\* the item back gives the state React holds); a commit mutates only a
\* structured clone, so the previous state object is as it was.
C25_StoredEqualsInMemory ==
  /\ (Committed \/ Imported) => loadState(storage).state = state
  /\ Committed => last.old = last.pre

\* The plays of every session of the state st.
PlaysOf(st) ==
  UNION { { st.sessions[k].plays[i] : i \in DOMAIN st.sessions[k].plays } :
          k \in DOMAIN st.sessions }

AtLeastBase(p) == Ge(p.currentGamesTotal, p.baseGamesTotal)

\* The base games edit stored the typed total and raised the current total
\* to it when it was below.
BaseEditRaises ==
  last.op = "setBaseGames" =>
    /\ AtLeastBase(PlayIn(state))
    /\ PlayIn(state).currentGamesTotal =
         MathMax(PlayIn(last.pre).currentGamesTotal, PlayIn(state).baseGamesTotal)

\* C26 as stated: currentGamesTotal >= baseGamesTotal holds for every play
\* after any sequence of UI edits (creating a play, editing the base games
\* total, editing the games total on the counter screen, normalizeState on
\* load and import), and the base games edit raises currentGamesTotal to the
\* new base when it would fall below it.
C26_CurrentNeverBelowBase ==
  /\ \A p \in PlaysOf(state) : AtLeastBase(p)
  /\ BaseEditRaises

\* A state has just been loaded or imported and normalized.
JustNormalized == last.op \in {"load", "import"} /\ last.ret.kind = "ok"

\* C26 as amended: currentGamesTotal >= baseGamesTotal holds for a play
\* after creating it, after editing its base games total (the edit raises
\* currentGamesTotal to the new base when it would fall below it) and after
\* normalizeState for a play stored without a current total, which gets its
\* base total; editing the games total on the counter screen stores the
\* typed total, and normalizeState keeps a stored one, also below the base.
C26_CurrentAtLeastBaseAfterBaseEdit ==
  /\ last.op = "addPlay" => AtLeastBase(PlayIn(state))
  /\ BaseEditRaises
  /\ JustNormalized =>
       \A k \in DOMAIN state.sessions : \A i \in DOMAIN state.sessions[k].plays :
         LET raw == last.ret.state.sessions[k].plays[i]
             p   == state.sessions[k].plays[i]
         IN  IF raw.currentGamesTotal = Undef
             THEN p.currentGamesTotal = p.baseGamesTotal
             ELSE p.currentGamesTotal = raw.currentGamesTotal
  /\ last.op = "onSetGamesTotal" =>
       \E t \in TypedTexts : PlayIn(state).currentGamesTotal = TypedCount(t)

\* C26 witness: the base games edit was given a total above the play's
\* current total and raised the current total to it.
C26_Witness ==
  /\ last.op = "setBaseGames"
  /\ Gt(PlayIn(last.pre).currentGamesTotal, 0)
  /\ Lt(PlayIn(last.pre).currentGamesTotal, PlayIn(state).baseGamesTotal)
  /\ PlayIn(state).currentGamesTotal = PlayIn(state).baseGamesTotal

\* The item is turned down: there is none, its text is not JSON, or its
\* value is not an object with version 1 and sessions.
TurnedDown(item) ==
  \/ item.kind = "missing"
  \/ item.kind # "json"
  \/ item.value.t # "object"
  \/ item.value.version # 1
  \/ ~item.value.hasSessions

\* C27: loadState never throws: when the storage key is missing, the stored
\* text is not valid JSON, the version is not 1 or sessions is missing it
\* returns the empty state {version: 1, sessions: {}}; otherwise it returns
\* the stored object.
C27_LoadStateNeverThrows ==
  last.op = "load" =>
    /\ last.ret.kind = "ok"
    /\ TurnedDown(last.preStore) => last.ret.state = EmptyState
    /\ ~TurnedDown(last.preStore) =>
         /\ last.ret.state.version = last.preStore.value.version
         /\ last.ret.state.sessions = last.preStore.value.sessions

\* C27 witness: the application started on an item holding an object of
\* version 2 with a play, and loadState returned the empty state.
C27_Witness ==
  /\ last.op = "load"
  /\ last.preStore.kind = "json"
  /\ last.preStore.value.t = "object"
  /\ last.preStore.value.version = 2
  /\ last.preStore.value.sessions # << >>
  /\ last.ret = Returns(EmptyState)

\* C28: a backup import whose file is not valid JSON, or whose object has a
\* version other than 1 or lacks sessions, is rejected by importBackupFile
\* and leaves the in-memory app state and the persisted state unchanged.
C28_BadBackupRejected ==
  (last.op = "import" /\ TurnedDown(last.file)) =>
    /\ last.ret.kind = "throw"
    /\ state = last.pre
    /\ storage = last.preStore

\* C28 witness: a file with an object of version 2 was picked while the
\* application held a play, and was rejected.
C28_Witness ==
  /\ last.op = "import"
  /\ last.file.kind = "json"
  /\ last.file.value.t = "object"
  /\ last.file.value.version = 2
  /\ last.ret.kind = "throw"
  /\ PlaysOf(state) # {}
  /\ storage # NoItem

=============================================================================
